---- MODULE Spec2Model ----
(***************************************************************************)
(* Batch reservation engine of the pharmacy POS: InventoryService          *)
(* (create_inventory_batch, reserve_stock, release_reservation,            *)
(* confirm_sale, adjust_stock, record_stock_movement) and                  *)
(* ExpiryService.mark_batch_expired, over the inventory_batches and        *)
(* stock_movements tables; and the alert level, priority score and alert   *)
(* query of ExpiryService.                                                 *)
(***************************************************************************)
EXTENDS Integers, Sequences, FiniteSets, Bags, TLC

\* ---------------------------------------------------------------- bounds
MaxBatches == 2      \* rows of inventory_batches
MaxQty == 2          \* largest initial_quantity / new_quantity supplied
MaxDay == 2          \* expiry dates are days 1..MaxDay
MaxReq == 3          \* largest quantity requested from reserve_stock
MaxHeld == 2         \* reservations returned to callers
MaxMoves == 3        \* no call that records a movement starts at this many rows
NumProducts == 1     \* products 1..NumProducts
NumSessions == 2     \* concurrent database sessions
MaxDaysPast == 10     \* days_until_expiry goes down to -MaxDaysPast
MaxDaysAhead == 190   \* days_until_expiry goes up to MaxDaysAhead
MaxScoreDays == 370   \* days scored go from -MaxDaysPast to MaxScoreDays
MaxQtySteps == 5      \* quantities scored: 0, 25, ..., 25 * MaxQtySteps
MaxPriceSteps == 5    \* unit prices scored: 0.00, 2.50, ..., 2.50 * MaxPriceSteps
MaxAlertRows == 2     \* batches in the table an alert query or summary reads
MaxFilterLevels == 1  \* levels in the alert_levels list of an alert query
MaxActionQuantity == 102
MaxCartQuantity == 3
MaxCartRows == 2
MaxSaleRows == 2
MaxSales == 2

Products == 1..NumProducts
Sessions == 1..NumSessions
References == {"POS0001"}

VARIABLES
    batches,     \* inventory_batches: sequence indexed by the autoincrement id
    movements,   \* stock_movements: a bag of rows (the table without its id column)
    held,        \* reservations returned by reserve_stock, with what was done to them
    last,        \* the last call: its arguments and its outcome
    pre,         \* inventory_batches as they were when the last call started
    sess,        \* per session: the batches a running reserve_stock has loaded
    carts,       \* POSService._carts: per session, the cart's items in order
    sales        \* sales: the rows committed, in order of insertion

vars == <<batches, movements, held, last, pre, sess, carts, sales>>

\* ---------------------------------------------------------------- helpers
Min(a, b) == IF a < b THEN a ELSE b

Max(a, b) == IF a > b THEN a ELSE b

\* InventoryBatch.available_quantity
available_quantity(b) == b.current_quantity - b.reserved_quantity

\* The row reserve_stock's query selects from: the product's active batches
\* with current_quantity > reserved_quantity.
Reservable(bs, product_id) ==
    {i \in DOMAIN bs : /\ bs[i].product_id = product_id
                       /\ bs[i].is_active
                       /\ bs[i].current_quantity > bs[i].reserved_quantity}

OrderingsUnsorted(bs, ids, prefer_fifo) ==
    {s \in [1..Cardinality(ids) -> ids] :
        \A i, j \in DOMAIN s : i # j => s[i] # s[j]}

OrderingsAscending(bs, ids, prefer_fifo) ==
    {s \in [1..Cardinality(ids) -> ids] :
        /\ \A i, j \in DOMAIN s : i # j => s[i] # s[j]
        /\ \A i, j \in DOMAIN s : i < j =>
              bs[s[i]].expiry_date <= bs[s[j]].expiry_date}

\* ORDER BY expiry_date (prefer_fifo) or expiry_date DESC; rows with equal
\* dates come in an order the database chooses.
Orderings(bs, ids, prefer_fifo) ==
    {s \in [1..Cardinality(ids) -> ids] :
        /\ \A i, j \in DOMAIN s : i # j => s[i] # s[j]
        /\ \A i, j \in DOMAIN s : i < j =>
              IF prefer_fifo THEN bs[s[i]].expiry_date <= bs[s[j]].expiry_date
                             ELSE bs[s[i]].expiry_date >= bs[s[j]].expiry_date}

\* reserve_qty = min(remaining_quantity, available)
ReserveQty(remaining_quantity, available) == Min(remaining_quantity, available)

InsufficientStockAvailableMissing(quantity, remaining_quantity) == remaining_quantity

\* The available quantity in reserve_stock's "Insufficient stock" error:
\* quantity - remaining_quantity, next to the quantity asked for.
InsufficientStockAvailable(quantity, remaining_quantity) ==
    quantity - remaining_quantity

\* The allocation loop of reserve_stock over the loaded batches.
RECURSIVE AllocLoop(_, _, _, _, _)
AllocLoop(bs, order, i, remaining_quantity, reservations) ==
    IF i > Len(order) \/ remaining_quantity <= 0
    THEN [bs |-> bs, remaining |-> remaining_quantity, lines |-> reservations]
    ELSE LET b == order[i]
             available == bs[b].current_quantity - bs[b].reserved_quantity
         IN  IF available <= 0
             THEN AllocLoop(bs, order, i + 1, remaining_quantity, reservations)
             ELSE LET reserve_qty == ReserveQty(remaining_quantity, available)
                  IN  AllocLoop(
                        [bs EXCEPT ![b].reserved_quantity = @ + reserve_qty],
                        order, i + 1, remaining_quantity - reserve_qty,
                        Append(reservations,
                               [batch_id |-> b, quantity |-> reserve_qty]))

RollbackLineSkipped(bs, reservation) == bs

\* One step of the rollback loop: batch.reserved_quantity -= quantity
RollbackLine(bs, reservation) ==
    [bs EXCEPT ![reservation.batch_id].reserved_quantity = @ - reservation.quantity]

RECURSIVE Rollback(_, _, _)
Rollback(bs, reservations, i) ==
    IF i > Len(reservations) THEN bs
    ELSE Rollback(RollbackLine(bs, reservations[i]), reservations, i + 1)

ReleaseLineUnclamped(bs, reservation) ==
    [bs EXCEPT ![reservation.batch_id].reserved_quantity = @ - reservation.quantity]

\* One step of release_reservation: reserved = max(0, reserved - quantity)
ReleaseLine(bs, reservation) ==
    IF reservation.batch_id \in DOMAIN bs
    THEN [bs EXCEPT ![reservation.batch_id].reserved_quantity =
                        Max(0, @ - reservation.quantity)]
    ELSE bs

RECURSIVE ReleaseAll(_, _, _)
ReleaseAll(bs, reservations, i) ==
    IF i > Len(reservations) THEN bs
    ELSE ReleaseAll(ReleaseLine(bs, reservations[i]), reservations, i + 1)

ConfirmLineCurrentOnly(bs, reservation) ==
    [bs EXCEPT ![reservation.batch_id].current_quantity = @ - reservation.quantity]

\* One step of confirm_sale: both quantities go down by the line quantity.
ConfirmLine(bs, reservation) ==
    IF reservation.batch_id \in DOMAIN bs
    THEN [bs EXCEPT ![reservation.batch_id].current_quantity = @ - reservation.quantity,
                    ![reservation.batch_id].reserved_quantity = @ - reservation.quantity]
    ELSE bs

RECURSIVE ConfirmAll(_, _, _)
ConfirmAll(bs, reservations, i) ==
    IF i > Len(reservations) THEN bs
    ELSE ConfirmAll(ConfirmLine(bs, reservations[i]), reservations, i + 1)

StockMovementUnsigned(movement_type, product_id, batch_id, quantity, reference_number) ==
    [movement_type |-> movement_type, product_id |-> product_id,
     batch_id |-> batch_id,
     quantity |-> IF quantity < 0 THEN -quantity ELSE quantity,
     reference_number |-> reference_number]

\* record_stock_movement: the row it inserts
StockMovement(movement_type, product_id, batch_id, quantity, reference_number) ==
    [movement_type |-> movement_type, product_id |-> product_id,
     batch_id |-> batch_id, quantity |-> quantity,
     reference_number |-> reference_number]

\* The SALE movements confirm_sale records, one per line whose batch is found.
RECURSIVE SaleMovements(_, _, _, _)
SaleMovements(bs, reservations, sale_reference, i) ==
    IF i > Len(reservations) THEN EmptyBag
    ELSE LET r == reservations[i]
             rest == SaleMovements(bs, reservations, sale_reference, i + 1)
         IN  IF r.batch_id \in DOMAIN bs
             THEN SetToBag({StockMovement("sale", bs[r.batch_id].product_id,
                                          r.batch_id, -r.quantity, sale_reference)})
                  (+) rest
             ELSE rest

RECURSIVE SumQuantity(_, _)
SumQuantity(reservations, i) ==
    IF i > Len(reservations) THEN 0
    ELSE reservations[i].quantity + SumQuantity(reservations, i + 1)

\* The record of a call: every call fills the same fields.
\* op: the operation; ok: it returned normally (and not False); was_open: the
\* reservation passed in had been neither released nor confirmed; moves: the
\* stock_movements table when the call started; reported: the available
\* quantity a failed reserve_stock names in its error.
Call(op, ok, product_id, batch_id, quantity, res, lines, reference, prefer_fifo, reported) ==
    [op |-> op, ok |-> ok, product_id |-> product_id, batch_id |-> batch_id,
     quantity |-> quantity, res |-> res, lines |-> lines,
     reference |-> reference, prefer_fifo |-> prefer_fifo,
     reported |-> reported,
     was_open |-> res \in DOMAIN held /\ held[res].status = "open",
     moves |-> movements]

\* Cart(): no items, no customer (None is written 0)
Cart == [items |-> <<>>, customer_id |-> 0]

IdleSession == [pc |-> "idle", loaded |-> <<>>, order |-> <<>>,
                product_id |-> 0, quantity |-> 0]

\* ---------------------------------------------------------------- initial state
Init ==
    /\ batches = <<>>
    /\ movements = EmptyBag
    /\ held = <<>>
    /\ last = Call("none", TRUE, 0, 0, 0, 0, <<>>, "", TRUE, 0)
    /\ pre = <<>>
    /\ sess = [s \in Sessions |-> IdleSession]
    /\ carts = [s \in Sessions |-> Cart]
    /\ sales = <<>>

\* ---------------------------------------------------------------- operations
\* InventoryService.create_inventory_batch
create_inventory_batch(product_id, initial_quantity, expiry_date, is_active) ==
    /\ Len(batches) < MaxBatches
    /\ BagCardinality(movements) < MaxMoves
    /\ batches' = Append(batches,
          [product_id |-> product_id, initial_quantity |-> initial_quantity,
           current_quantity |-> initial_quantity, reserved_quantity |-> 0,
           expiry_date |-> expiry_date, is_active |-> is_active,
           is_expired |-> FALSE])
    /\ movements' = movements (+) SetToBag({
          StockMovement("purchase", product_id, Len(batches) + 1,
                        initial_quantity, "")})
    /\ pre' = batches
    /\ last' = Call("create", TRUE, product_id, Len(batches) + 1,
                    initial_quantity, 0, <<>>, "", TRUE, 0)
    /\ UNCHANGED <<held, sess>>
    /\ UNCHANGED <<carts, sales>>

\* InventoryService.reserve_stock, run to completion in one session
reserve_stock(product_id, quantity, prefer_fifo) ==
    /\ \E order \in Orderings(batches, Reservable(batches, product_id), prefer_fifo) :
         LET r == AllocLoop(batches, order, 1, quantity, <<>>)
         IN  IF r.remaining > 0
             THEN /\ batches' = Rollback(r.bs, r.lines, 1)
                  /\ held' = held
                  /\ last' = Call("reserve", FALSE, product_id, 0, quantity, 0,
                                  r.lines, "", prefer_fifo,
                                  InsufficientStockAvailable(quantity, r.remaining))
             ELSE /\ Len(held) < MaxHeld
                  /\ batches' = r.bs
                  /\ held' = Append(held, [lines |-> r.lines, status |-> "open"])
                  /\ last' = Call("reserve", TRUE, product_id, 0, quantity,
                                  Len(held) + 1, r.lines, "", prefer_fifo, 0)
    /\ pre' = batches
    /\ UNCHANGED <<movements, sess>>
    /\ UNCHANGED <<carts, sales>>

\* InventoryService.release_reservation
release_reservation(res) ==
    /\ res \in DOMAIN held
    /\ batches' = ReleaseAll(batches, held[res].lines, 1)
    /\ held' = [held EXCEPT ![res].status =
                   IF @ = "open" THEN "released" ELSE @]
    /\ pre' = batches
    /\ last' = Call("release", TRUE, 0, 0, 0, res, held[res].lines, "", TRUE, 0)
    /\ UNCHANGED <<movements, sess>>
    /\ UNCHANGED <<carts, sales>>

\* InventoryService.confirm_sale
confirm_sale(res, sale_reference) ==
    /\ res \in DOMAIN held
    /\ BagCardinality(movements) < MaxMoves
    /\ batches' = ConfirmAll(batches, held[res].lines, 1)
    /\ movements' = movements (+) SaleMovements(batches, held[res].lines, sale_reference, 1)
    /\ held' = [held EXCEPT ![res].status =
                   IF @ = "open" THEN "confirmed" ELSE @]
    /\ pre' = batches
    /\ last' = Call("confirm", TRUE, 0, 0, 0, res, held[res].lines, sale_reference, TRUE, 0)
    /\ UNCHANGED sess
    /\ UNCHANGED <<carts, sales>>

\* InventoryService.adjust_stock
adjust_stock(batch_id, new_quantity) ==
    /\ BagCardinality(movements) < MaxMoves
    /\ IF batch_id \in DOMAIN batches
       THEN /\ batches' = [batches EXCEPT ![batch_id].current_quantity = new_quantity]
            /\ movements' = movements (+) SetToBag({
                  StockMovement("adjustment", batches[batch_id].product_id, batch_id,
                                new_quantity - batches[batch_id].current_quantity, "")})
            /\ last' = Call("adjust", TRUE, 0, batch_id, new_quantity, 0, <<>>, "", TRUE, 0)
       ELSE /\ UNCHANGED <<batches, movements>>
            /\ last' = Call("adjust", FALSE, 0, batch_id, 0, 0, <<>>, "", TRUE, 0)
    /\ pre' = batches
    /\ UNCHANGED <<held, sess>>
    /\ UNCHANGED <<carts, sales>>

mark_batch_expiredUnguarded(batch_id) ==
    /\ BagCardinality(movements) < MaxMoves
    /\ IF batch_id \in DOMAIN batches
       THEN /\ movements' = movements (+) SetToBag({
                  StockMovement("expired", batches[batch_id].product_id, batch_id,
                                -batches[batch_id].current_quantity, "")})
            /\ batches' = [batches EXCEPT ![batch_id].is_expired = TRUE,
                                          ![batch_id].current_quantity = 0]
            /\ last' = Call("expire", TRUE, 0, batch_id, 0, 0, <<>>, "", TRUE, 0)
       ELSE /\ UNCHANGED <<batches, movements>>
            /\ last' = Call("expire", FALSE, 0, batch_id, 0, 0, <<>>, "", TRUE, 0)
    /\ pre' = batches
    /\ UNCHANGED <<held, sess>>
    /\ UNCHANGED <<carts, sales>>

\* ExpiryService.mark_batch_expired
mark_batch_expired(batch_id) ==
    /\ BagCardinality(movements) < MaxMoves
    /\ IF batch_id \in DOMAIN batches /\ batches[batch_id].current_quantity > 0
       THEN /\ movements' = movements (+) SetToBag({
                  StockMovement("expired", batches[batch_id].product_id, batch_id,
                                -batches[batch_id].current_quantity, "")})
            /\ batches' = [batches EXCEPT ![batch_id].is_expired = TRUE,
                                          ![batch_id].current_quantity = 0]
            /\ last' = Call("expire", TRUE, 0, batch_id, 0, 0, <<>>, "", TRUE, 0)
       ELSE /\ UNCHANGED <<batches, movements>>
            /\ last' = Call("expire", FALSE, 0, batch_id, 0, 0, <<>>, "", TRUE, 0)
    /\ pre' = batches
    /\ UNCHANGED <<held, sess>>
    /\ UNCHANGED <<carts, sales>>

\* The UPDATE a commit flushes for one batch the session changed: the column
\* is set to the value the session holds in memory.
FlushLine(db, loaded, reservation) ==
    [db EXCEPT ![reservation.batch_id].reserved_quantity =
                   loaded[reservation.batch_id].reserved_quantity]

FlushFirstLine(db, loaded, reservations, i) ==
    IF i > Len(reservations) THEN db
    ELSE FlushLine(db, loaded, reservations[i])

RECURSIVE Flush(_, _, _, _)
Flush(db, loaded, reservations, i) ==
    IF i > Len(reservations) THEN db
    ELSE Flush(FlushLine(db, loaded, reservations[i]), loaded, reservations, i + 1)

\* reserve_stock in session s, up to the await of its SELECT: the session
\* holds the rows as they were read.
reserve_select(s, product_id, quantity) ==
    /\ sess[s].pc = "idle"
    /\ \E order \in Orderings(batches, Reservable(batches, product_id), TRUE) :
         sess' = [sess EXCEPT ![s] =
                     [pc |-> "loaded", loaded |-> batches, order |-> order,
                      product_id |-> product_id, quantity |-> quantity]]
    /\ UNCHANGED <<batches, movements, held, last, pre>>
    /\ UNCHANGED <<carts, sales>>

\* reserve_stock in session s, from the rows it read to its commit or raise.
\* The loop and the rollback change the session's objects only; a raise
\* flushes nothing, a commit writes the reserved_quantity of the batches the
\* loop changed.
reserve_commit(s) ==
    /\ sess[s].pc = "loaded"
    /\ LET r == AllocLoop(sess[s].loaded, sess[s].order, 1, sess[s].quantity, <<>>)
       IN  IF r.remaining > 0
           THEN /\ UNCHANGED <<batches, held>>
                /\ last' = Call("reserve", FALSE, sess[s].product_id, 0,
                                sess[s].quantity, 0, r.lines, "", TRUE,
                                InsufficientStockAvailable(sess[s].quantity,
                                                           r.remaining))
           ELSE /\ Len(held) < MaxHeld
                /\ batches' = Flush(batches, r.bs, r.lines, 1)
                /\ held' = Append(held, [lines |-> r.lines, status |-> "open"])
                /\ last' = Call("reserve", TRUE, sess[s].product_id, 0,
                                sess[s].quantity, Len(held) + 1, r.lines, "", TRUE, 0)
    /\ pre' = batches
    /\ sess' = [sess EXCEPT ![s] = IdleSession]
    /\ UNCHANGED movements
    /\ UNCHANGED <<carts, sales>>

CreateBatch ==
    \E p \in Products, q \in 1..MaxQty, d \in 1..MaxDay, a \in BOOLEAN :
        create_inventory_batch(p, q, d, a)

Reserve ==
    \E p \in Products, q \in 1..MaxReq, f \in BOOLEAN : reserve_stock(p, q, f)

Release == \E res \in 1..MaxHeld : release_reservation(res)

Confirm == \E res \in 1..MaxHeld, ref \in References : confirm_sale(res, ref)

AdjustStock ==
    \E b \in 1..(Len(batches) + 1), q \in 0..MaxQty : adjust_stock(b, q)

MarkExpired == \E b \in 1..(Len(batches) + 1) : mark_batch_expired(b)

Next ==
    \/ CreateBatch
    \/ Reserve
    \/ Release
    \/ Confirm
    \/ AdjustStock
    \/ MarkExpired

Spec == Init /\ [][Next]_vars

ReserveSelect ==
    \E s \in Sessions, p \in Products, q \in 1..MaxReq : reserve_select(s, p, q)

ReserveCommit == \E s \in Sessions : reserve_commit(s)

\* Batches are received while reserve_stock calls of several sessions interleave.
NextConc ==
    \/ CreateBatch
    \/ ReserveSelect
    \/ ReserveCommit

SpecConc == Init /\ [][NextConc]_vars

\* A successful reserve_stock followed at once by release_reservation of the
\* lines it returned, as one step: pre is the table before the reserve.
reserve_release(product_id, quantity, prefer_fifo) ==
    /\ Len(held) < MaxHeld
    /\ \E order \in Orderings(batches, Reservable(batches, product_id), prefer_fifo) :
         LET r == AllocLoop(batches, order, 1, quantity, <<>>)
         IN  /\ r.remaining <= 0
             /\ batches' = ReleaseAll(r.bs, r.lines, 1)
             /\ held' = Append(held, [lines |-> r.lines, status |-> "released"])
             /\ last' = Call("reserve_release", TRUE, product_id, 0, quantity,
                             Len(held) + 1, r.lines, "", prefer_fifo, 0)
    /\ pre' = batches
    /\ UNCHANGED <<movements, sess>>
    /\ UNCHANGED <<carts, sales>>

ReserveRelease ==
    \E p \in Products, q \in 1..MaxReq, f \in BOOLEAN : reserve_release(p, q, f)

\* The service calls of Spec, and a reserve released before anything else runs.
NextRoundTrip ==
    \/ CreateBatch
    \/ Reserve
    \/ Release
    \/ Confirm
    \/ AdjustStock
    \/ MarkExpired
    \/ ReserveRelease

SpecRoundTrip == Init /\ [][NextRoundTrip]_vars

\* ---------------------------------------------------------------- expiry alerts
\* Settings: the alert thresholds, in days
expiry_alert_1_week == 7

expiry_alert_1_month == 30

expiry_alert_3_months == 90

expiry_alert_6_months == 180

\* ExpiryAlertLevel
AlertLevels == {"critical", "high", "medium", "low", "info"}

\* date.today(), on the scale of the batches' expiry dates
Today == 2

_calculate_alert_levelStrict(days_until_expiry) ==
    IF days_until_expiry < expiry_alert_1_week THEN "critical"
    ELSE IF days_until_expiry < expiry_alert_1_month THEN "high"
    ELSE IF days_until_expiry < expiry_alert_3_months THEN "medium"
    ELSE IF days_until_expiry < expiry_alert_6_months THEN "low"
    ELSE "info"

\* ExpiryService._calculate_alert_level
_calculate_alert_level(days_until_expiry) ==
    IF days_until_expiry <= expiry_alert_1_week THEN "critical"
    ELSE IF days_until_expiry <= expiry_alert_1_month THEN "high"
    ELSE IF days_until_expiry <= expiry_alert_3_months THEN "medium"
    ELSE IF days_until_expiry <= expiry_alert_6_months THEN "low"
    ELSE "info"

\* The products table: is_active and is_controlled_substance of products 1, 2
\* and 3. The batches of the reservation calls belong to active products.
Catalogue ==
    << [is_active |-> TRUE, is_controlled_substance |-> FALSE],
       [is_active |-> TRUE, is_controlled_substance |-> TRUE],
       [is_active |-> FALSE, is_controlled_substance |-> FALSE] >>

AtLeastStrict(current_quantity, min_quantity) == current_quantity > min_quantity

\* InventoryBatch.current_quantity >= min_quantity
AtLeast(current_quantity, min_quantity) == current_quantity >= min_quantity

NotPastTomorrow(expiry_date) == expiry_date > Today

\* InventoryBatch.expiry_date >= today
NotPast(expiry_date) == expiry_date >= Today

\* if alert_levels and alert_level not in alert_levels: continue
\* None and the empty list both count as no filter; both are {} here.
LevelAdmittedAny(alert_levels, alert_level) == TRUE

LevelAdmitted(alert_levels, alert_level) ==
    alert_levels = {} \/ alert_level \in alert_levels

\* The batches ExpiryService.get_expiry_alerts builds an alert for: the rows of
\* its query that pass the level filter.
AlertBatches(bs, alert_levels, min_quantity, include_expired) ==
    {b \in DOMAIN bs :
        /\ bs[b].is_active
        /\ AtLeast(bs[b].current_quantity, min_quantity)
        /\ Catalogue[bs[b].product_id].is_active
        /\ (~include_expired => NotPast(bs[b].expiry_date))
        /\ LevelAdmitted(alert_levels,
                         _calculate_alert_level(bs[b].expiry_date - Today))}

\* A call of _calculate_alert_level, as get_expiry_alerts makes for each row.
calculate_alert_level(days_until_expiry) ==
    /\ last' = [op |-> "alert_level", days |-> days_until_expiry,
                level |-> _calculate_alert_level(days_until_expiry)]
    /\ UNCHANGED <<batches, movements, held, pre, sess>>
    /\ UNCHANGED <<carts, sales>>

CalculateAlertLevel ==
    \E d \in (-MaxDaysPast)..MaxDaysAhead : calculate_alert_level(d)

NextLevel == CalculateAlertLevel

SpecLevel == Init /\ [][NextLevel]_vars

\* ---------------------------------------------------------------- priority score
\* Scores are counted in thousandths and unit prices in cents, so that the
\* arithmetic is exact. round(x, 3) is the nearest thousandth; where the exact
\* value lies midway between two, the error of the float decides in the
\* program, and here the even one is taken.
RoundHalfEven(n, d) ==
    LET f == n \div d
        r == n % d
    IN  IF 2 * r < d THEN f
        ELSE IF 2 * r > d THEN f + 1
        ELSE IF f % 2 = 0 THEN f ELSE f + 1

urgency_daysAbs(days_until_expiry) ==
    IF days_until_expiry <= 365 THEN 365 - days_until_expiry
                                ELSE days_until_expiry - 365

\* The numerator of urgency_score = max(0, 365 - days_until_expiry) / 365
urgency_days(days_until_expiry) == Max(0, 365 - days_until_expiry)

\* ExpiryService._calculate_priority_score, in thousandths, of a unit value of
\* unit_cents / 100. With u = urgency_days / 365, v = min(quantity * unit_value
\* / 1000, 1) and k = min(quantity / 100, 1) the score is
\* (0.5 u + 0.3 v + 0.2 k) * multiplier; over the denominator 73000 its
\* thousandths are 100000 * urgency_days + 219 * min(quantity * unit_cents,
\* 100000) + 146000 * min(quantity, 100), times 3 / 2 for a controlled substance.
_calculate_priority_score(days_until_expiry, quantity, unit_cents, is_controlled) ==
    LET n == 100000 * urgency_days(days_until_expiry)
             + 219 * Min(quantity * unit_cents, 100000)
             + 146000 * Min(quantity, 100)
    IN  IF is_controlled THEN RoundHalfEven(3 * n, 146000)
                         ELSE RoundHalfEven(n, 73000)

ScoreDays == (-MaxDaysPast)..MaxScoreDays

ScoreQuantities == {25 * k : k \in 0..MaxQtySteps}

ScoreCents == {250 * k : k \in 0..MaxPriceSteps}

\* The arguments get_expiry_alerts passes for a row: its days until expiry
\* (negative with include_expired), current_quantity, selling price and the
\* product's is_controlled_substance.
InitScore ==
    /\ batches = <<>>
    /\ movements = EmptyBag
    /\ held = <<>>
    /\ pre = <<>>
    /\ sess = [s \in Sessions |-> IdleSession]
    /\ last \in [op : {"score_args"}, days : ScoreDays, quantity : ScoreQuantities,
                 unit_cents : ScoreCents, is_controlled : BOOLEAN, score : {0}]
    /\ carts = [s \in Sessions |-> Cart]
    /\ sales = <<>>

\* The call of _calculate_priority_score with those arguments.
calculate_priority_score ==
    /\ last.op = "score_args"
    /\ last' = [last EXCEPT !.op = "priority_score",
                            !.score = _calculate_priority_score(
                                          last.days, last.quantity,
                                          last.unit_cents, last.is_controlled)]
    /\ UNCHANGED <<batches, movements, held, pre, sess>>
    /\ UNCHANGED <<carts, sales>>

NextScore == calculate_priority_score

SpecScore == InitScore /\ [][NextScore]_vars

\* ---------------------------------------------------------------- alert list
_get_recommended_actionAtLeast(days_until_expiry, quantity, alert_level) ==
    IF alert_level = "critical"
    THEN IF quantity >= 50
         THEN "URGENT: Consider bulk discount sale or return to supplier"
         ELSE "URGENT: Prioritize sale or mark for disposal"
    ELSE IF alert_level = "high"
    THEN IF quantity >= 100
         THEN "Implement promotional pricing or contact supplier for return"
         ELSE "Prioritize in sales recommendations"
    ELSE IF alert_level = "medium"
    THEN "Monitor closely and consider promotional strategies"
    ELSE IF alert_level = "low"
    THEN "Plan inventory rotation and adjust reorder quantities"
    ELSE "Monitor for future planning"

\* ExpiryService._get_recommended_action
_get_recommended_action(days_until_expiry, quantity, alert_level) ==
    IF alert_level = "critical"
    THEN IF quantity > 50
         THEN "URGENT: Consider bulk discount sale or return to supplier"
         ELSE "URGENT: Prioritize sale or mark for disposal"
    ELSE IF alert_level = "high"
    THEN IF quantity > 100
         THEN "Implement promotional pricing or contact supplier for return"
         ELSE "Prioritize in sales recommendations"
    ELSE IF alert_level = "medium"
    THEN "Monitor closely and consider promotional strategies"
    ELSE IF alert_level = "low"
    THEN "Plan inventory rotation and adjust reorder quantities"
    ELSE "Monitor for future planning"

estimated_valueAvailable(row) ==
    (row.current_quantity - row.reserved_quantity) * row.selling_cents

\* estimated_value = float(current_quantity * selling_price_per_unit), in cents
estimated_value(row) == row.current_quantity * row.selling_cents

\* The ExpiryAlert get_expiry_alerts builds for batch b
ExpiryAlert(bs, b) ==
    LET days_until_expiry == bs[b].expiry_date - Today
        alert_level == _calculate_alert_level(days_until_expiry)
    IN  [batch_id |-> b,
         product_id |-> bs[b].product_id,
         current_quantity |-> bs[b].current_quantity,
         expiry_date |-> bs[b].expiry_date,
         days_until_expiry |-> days_until_expiry,
         alert_level |-> alert_level,
         estimated_value |-> estimated_value(bs[b]),
         recommended_action |->
             _get_recommended_action(days_until_expiry,
                                     bs[b].current_quantity, alert_level),
         priority_score |->
             _calculate_priority_score(
                 days_until_expiry, bs[b].current_quantity, bs[b].selling_cents,
                 Catalogue[bs[b].product_id].is_controlled_substance)]

InsertAlertAscending(sorted, alert) ==
    LET n == Cardinality({i \in DOMAIN sorted :
                             sorted[i].priority_score <= alert.priority_score})
    IN  SubSeq(sorted, 1, n) \o <<alert>> \o SubSeq(sorted, n + 1, Len(sorted))

\* The place of one more alert in a list sorted by priority_score, highest
\* first: list.sort is stable, so it goes behind the alerts of equal score
\* that came before it.
InsertAlert(sorted, alert) ==
    LET n == Cardinality({i \in DOMAIN sorted :
                             sorted[i].priority_score >= alert.priority_score})
    IN  SubSeq(sorted, 1, n) \o <<alert>> \o SubSeq(sorted, n + 1, Len(sorted))

\* alerts.sort(key=lambda x: x.priority_score, reverse=True)
RECURSIVE SortAlerts(_, _, _)
SortAlerts(alerts, i, sorted) ==
    IF i > Len(alerts) THEN sorted
    ELSE SortAlerts(alerts, i + 1, InsertAlert(sorted, alerts[i]))

\* The orders in which the database may return a set of rows: the query has
\* no ORDER BY.
RowOrders(ids) ==
    {s \in [1..Cardinality(ids) -> ids] :
        \A i, j \in DOMAIN s : i # j => s[i] # s[j]}

\* The list get_expiry_alerts returns when the rows come in the given order.
AlertList(bs, order) ==
    SortAlerts([i \in DOMAIN order |-> ExpiryAlert(bs, order[i])], 1, <<>>)

\* ---------------------------------------------------------------- recommended action
\* The arguments of a call of _get_recommended_action: any quantity up to
\* MaxActionQuantity, any level, and days until expiry taken independently of
\* the level.
ActionDays == {-1, 3, 200}

InitAction ==
    /\ batches = <<>>
    /\ movements = EmptyBag
    /\ held = <<>>
    /\ pre = <<>>
    /\ sess = [s \in Sessions |-> IdleSession]
    /\ last \in [op : {"action_args"}, days : ActionDays,
                 quantity : 0..MaxActionQuantity, alert_level : AlertLevels,
                 action : {""}]
    /\ carts = [s \in Sessions |-> Cart]
    /\ sales = <<>>

\* The call of _get_recommended_action with those arguments.
get_recommended_action ==
    /\ last.op = "action_args"
    /\ last' = [last EXCEPT !.op = "recommended_action",
                            !.action = _get_recommended_action(
                                           last.days, last.quantity,
                                           last.alert_level)]
    /\ UNCHANGED <<batches, movements, held, pre, sess>>
    /\ UNCHANGED <<carts, sales>>

NextAction == get_recommended_action

SpecAction == InitAction /\ [][NextAction]_vars

\* ---------------------------------------------------------------- summary
\* The rows every query of get_expiry_summary starts from: active batches in
\* stock of active products.
InStock(bs) ==
    {b \in DOMAIN bs : /\ bs[b].is_active
                       /\ bs[b].current_quantity > 0
                       /\ Catalogue[bs[b].product_id].is_active}

\* sum(current_quantity) over a set of rows
RECURSIVE SumCurrent(_, _)
SumCurrent(bs, ids) ==
    IF ids = {} THEN 0
    ELSE LET b == CHOOSE x \in ids : TRUE
         IN  bs[b].current_quantity + SumCurrent(bs, ids \ {b})

\* sum(current_quantity * selling_price_per_unit) over a set of rows, in cents
RECURSIVE SumValue(_, _)
SumValue(bs, ids) ==
    IF ids = {} THEN 0
    ELSE LET b == CHOOSE x \in ids : TRUE
         IN  bs[b].current_quantity * bs[b].selling_cents
             + SumValue(bs, ids \ {b})

\* One result row of get_expiry_summary: count, quantity and value of a set of
\* rows; a sum over no rows is reported as 0.
Aggregate(bs, ids) ==
    [batches |-> Cardinality(ids),
     quantity |-> SumCurrent(bs, ids),
     value |-> SumValue(bs, ids)]

\* The threshold of a level's bucket; the loop skips INFO.
max_days(level) ==
    IF level = "critical" THEN expiry_alert_1_week
    ELSE IF level = "high" THEN expiry_alert_1_month
    ELSE IF level = "medium" THEN expiry_alert_3_months
    ELSE expiry_alert_6_months

BucketRowsFromTomorrow(bs, level) ==
    {b \in InStock(bs) : /\ bs[b].expiry_date <= Today + max_days(level)
                         /\ bs[b].expiry_date > Today}

\* The rows of a level's bucket: today <= expiry_date <= today + max_days
BucketRows(bs, level) ==
    {b \in InStock(bs) : /\ bs[b].expiry_date <= Today + max_days(level)
                         /\ bs[b].expiry_date >= Today}

\* The rows of the expired bucket: expiry_date < today
ExpiredRows(bs) == {b \in InStock(bs) : bs[b].expiry_date < Today}

\* ExpiryService.get_expiry_summary: its result
ExpirySummary(bs) ==
    LET totals == Aggregate(bs, InStock(bs))
    IN  [total_batches |-> totals.batches,
         total_quantity |-> totals.quantity,
         total_value |-> totals.value,
         expiry_breakdown |->
             [level \in AlertLevels \ {"info"} |->
                 Aggregate(bs, BucketRows(bs, level))],
         expired |-> Aggregate(bs, ExpiredRows(bs))]

\* ---------------------------------------------------------------- alert queries
\* The batches of the test fixture: one active product, selling price 15.00,
\* expiring in 3, 20, 60, 120 and 300 days.
FixtureAlertBatches ==
    << [product_id |-> 1, initial_quantity |-> 50, current_quantity |-> 30,
        reserved_quantity |-> 0, expiry_date |-> Today + 3, is_active |-> TRUE,
        is_expired |-> FALSE, selling_cents |-> 1500],
       [product_id |-> 1, initial_quantity |-> 100, current_quantity |-> 75,
        reserved_quantity |-> 0, expiry_date |-> Today + 20, is_active |-> TRUE,
        is_expired |-> FALSE, selling_cents |-> 1500],
       [product_id |-> 1, initial_quantity |-> 200, current_quantity |-> 150,
        reserved_quantity |-> 0, expiry_date |-> Today + 60, is_active |-> TRUE,
        is_expired |-> FALSE, selling_cents |-> 1500],
       [product_id |-> 1, initial_quantity |-> 300, current_quantity |-> 250,
        reserved_quantity |-> 0, expiry_date |-> Today + 120, is_active |-> TRUE,
        is_expired |-> FALSE, selling_cents |-> 1500],
       [product_id |-> 1, initial_quantity |-> 400, current_quantity |-> 350,
        reserved_quantity |-> 0, expiry_date |-> Today + 300, is_active |-> TRUE,
        is_expired |-> FALSE, selling_cents |-> 1500] >>

\* current_quantity and reserved_quantity of the rows drawn
StockLevels == {<<0, 0>>, <<30, 10>>, <<150, 0>>}

\* days until expiry of the rows drawn: yesterday, today, the last day of the
\* one-week window, the day after it, and two dates more than a year ahead
AlertDays == {-1, 0, 7, 8, 400, 401}

AlertRowSet ==
    {[product_id |-> p, initial_quantity |-> 150, current_quantity |-> st[1],
      reserved_quantity |-> st[2], expiry_date |-> Today + d, is_active |-> a,
      is_expired |-> FALSE, selling_cents |-> 1500] :
        p \in DOMAIN Catalogue, st \in StockLevels, d \in AlertDays, a \in BOOLEAN}

AlertMinQuantities == {0, 1, 100}

\* alert_levels: None, or a list of at most MaxFilterLevels levels
AlertFilters ==
    {[given |-> FALSE, levels |-> {}]}
    \cup {[given |-> TRUE, levels |-> S] :
             S \in {T \in SUBSET AlertLevels : Cardinality(T) <= MaxFilterLevels}}

\* The table an alert query or a summary reads: up to MaxAlertRows rows, or
\* the test fixture.
InitAlerts ==
    /\ batches \in UNION {[1..n -> AlertRowSet] : n \in 0..MaxAlertRows}
                   \cup {FixtureAlertBatches}
    /\ movements = EmptyBag
    /\ held = <<>>
    /\ pre = <<>>
    /\ sess = [s \in Sessions |-> IdleSession]
    /\ last = [op |-> "none"]
    /\ carts = [s \in Sessions |-> Cart]
    /\ sales = <<>>

\* ExpiryService.get_expiry_alerts: the first query made on the table
get_expiry_alerts(alert_levels, min_quantity, include_expired) ==
    /\ last.op = "none"
    /\ \E order \in RowOrders(AlertBatches(batches, alert_levels.levels,
                                           min_quantity, include_expired)) :
         last' = [op |-> "alerts", alert_levels |-> alert_levels,
                  min_quantity |-> min_quantity,
                  include_expired |-> include_expired,
                  alerts |-> AlertList(batches, order)]
    /\ UNCHANGED <<batches, movements, held, pre, sess>>
    /\ UNCHANGED <<carts, sales>>

\* ExpiryService.get_expiry_summary: the first query made on the table
get_expiry_summary ==
    /\ last.op = "none"
    /\ last' = [op |-> "summary", summary |-> ExpirySummary(batches)]
    /\ UNCHANGED <<batches, movements, held, pre, sess>>
    /\ UNCHANGED <<carts, sales>>

GetExpiryAlerts ==
    \E f \in AlertFilters, m \in AlertMinQuantities, e \in BOOLEAN :
        get_expiry_alerts(f, m, e)

NextAlerts ==
    \/ GetExpiryAlerts
    \/ get_expiry_summary

SpecAlerts == InitAlerts /\ [][NextAlerts]_vars

\* ---------------------------------------------------------------- cart
\* The methods of Cart, on the list of the cart's items; an item is a product
\* and a quantity.
\* Cart.find_item: the place of the product's item, 0 if it has none
find_item(cart, product_id) ==
    IF \E i \in DOMAIN cart : cart[i].product_id = product_id
    THEN CHOOSE i \in DOMAIN cart :
             /\ cart[i].product_id = product_id
             /\ \A j \in 1..(i - 1) : cart[j].product_id # product_id
    ELSE 0

\* Cart.add_item: the quantity is added to the product's item if there is one
add_item(cart, cart_item) ==
    IF find_item(cart, cart_item.product_id) # 0
    THEN [cart EXCEPT ![find_item(cart, cart_item.product_id)].quantity =
                          @ + cart_item.quantity]
    ELSE Append(cart, cart_item)

\* Cart.remove_item
remove_item(cart, product_id) ==
    LET i == find_item(cart, product_id)
    IN  IF i = 0 THEN cart
        ELSE SubSeq(cart, 1, i - 1) \o SubSeq(cart, i + 1, Len(cart))

\* Cart.update_item_quantity
update_item_quantity(cart, product_id, quantity) ==
    LET i == find_item(cart, product_id)
    IN  IF i = 0 THEN cart
        ELSE IF quantity <= 0 THEN remove_item(cart, product_id)
        ELSE [cart EXCEPT ![i].quantity = quantity]

\* InventoryService.get_available_stock: sum(current_quantity) over the
\* product's active batches with current_quantity > 0; None is reported as 0.
get_available_stock(bs, product_id) ==
    SumCurrent(bs, {b \in DOMAIN bs : /\ bs[b].product_id = product_id
                                      /\ bs[b].is_active
                                      /\ bs[b].current_quantity > 0})

\* The rows of the tables the cart calls read: batches of products 1 and 2,
\* with and without units reserved by others, and an inactive batch.
CartRowSet ==
    {[product_id |-> r[1], initial_quantity |-> 2, current_quantity |-> r[2],
      reserved_quantity |-> r[3], expiry_date |-> Today + 20, is_active |-> r[4],
      is_expired |-> FALSE] :
        r \in {<<1, 1, 0, TRUE>>, <<1, 2, 1, TRUE>>, <<2, 1, 0, TRUE>>,
               <<2, 2, 1, TRUE>>, <<1, 2, 0, FALSE>>}}

InitCart ==
    /\ batches \in UNION {[1..n -> CartRowSet] : n \in 0..MaxCartRows}
    /\ movements = EmptyBag
    /\ held = <<>>
    /\ pre = <<>>
    /\ sess = [s \in Sessions |-> IdleSession]
    /\ last = [op |-> "none"]
    /\ carts = [s \in Sessions |-> Cart]
    /\ sales = <<>>

\* POSService.add_to_cart
add_to_cart(session_id, product_id, quantity) ==
    LET ok == /\ Catalogue[product_id].is_active
              /\ get_available_stock(batches, product_id) >= quantity
        items == add_item(carts[session_id].items,
                          [product_id |-> product_id, quantity |-> quantity])
    IN  /\ ok => \A i \in DOMAIN items : items[i].quantity <= MaxCartQuantity
        /\ carts' = IF ok THEN [carts EXCEPT ![session_id].items = items] ELSE carts
        /\ last' = [op |-> "add_to_cart", ok |-> ok, session_id |-> session_id,
                    product_id |-> product_id, quantity |-> quantity]
        /\ UNCHANGED <<batches, movements, held, pre, sess, sales>>

\* POSService.remove_from_cart
remove_from_cart(session_id, product_id) ==
    /\ carts' = [carts EXCEPT ![session_id].items = remove_item(@, product_id)]
    /\ last' = [op |-> "remove_from_cart", ok |-> TRUE, session_id |-> session_id,
                product_id |-> product_id, quantity |-> 0]
    /\ UNCHANGED <<batches, movements, held, pre, sess, sales>>

\* POSService.update_cart_item
update_cart_item(session_id, product_id, quantity) ==
    LET ok == quantity > 0 => get_available_stock(batches, product_id) >= quantity
    IN  /\ carts' = IF ok
                    THEN [carts EXCEPT ![session_id].items =
                             update_item_quantity(@, product_id, quantity)]
                    ELSE carts
        /\ last' = [op |-> "update_cart_item", ok |-> ok, session_id |-> session_id,
                    product_id |-> product_id, quantity |-> quantity]
        /\ UNCHANGED <<batches, movements, held, pre, sess, sales>>

AddToCart ==
    \E s \in Sessions, p \in DOMAIN Catalogue, q \in 1..MaxCartQuantity :
        add_to_cart(s, p, q)

RemoveFromCart ==
    \E s \in Sessions, p \in DOMAIN Catalogue : remove_from_cart(s, p)

UpdateCartItem ==
    \E s \in Sessions, p \in DOMAIN Catalogue, q \in 0..MaxCartQuantity :
        update_cart_item(s, p, q)

NextCart ==
    \/ AddToCart
    \/ RemoveFromCart
    \/ UpdateCartItem

SpecCart == InitCart /\ [][NextCart]_vars

\* ---------------------------------------------------------------- sale
\* A sale number is written as the digits that follow the day's prefix; all
\* sales here are made on one day.
RECURSIVE DigitsOf(_)
DigitsOf(n) == IF n < 10 THEN <<n>> ELSE Append(DigitsOf(n \div 10), n % 10)

RECURSIVE ZeroPad(_, _)
ZeroPad(digits, width) ==
    IF Len(digits) >= width THEN digits ELSE ZeroPad(<<0>> \o digits, width)

\* f"{prefix}{sequence:04d}"
format_sale_number(sequence) == ZeroPad(DigitsOf(sequence), 4)

RECURSIVE ValueOf(_)
ValueOf(digits) ==
    IF digits = <<>> THEN 0
    ELSE 10 * ValueOf(SubSeq(digits, 1, Len(digits) - 1)) + digits[Len(digits)]

\* int(last_sale[-4:])
last_four(sale_number) ==
    ValueOf(SubSeq(sale_number, Max(1, Len(sale_number) - 3), Len(sale_number)))

\* The order of strings, which ORDER BY sale_number uses.
StringBefore(a, b) ==
    \E k \in 1..(Min(Len(a), Len(b)) + 1) :
        /\ \A j \in 1..(k - 1) : a[j] = b[j]
        /\ \/ k > Len(a) /\ k <= Len(b)
           \/ k <= Len(a) /\ k <= Len(b) /\ a[k] < b[k]

\* POSService._generate_sale_number on the rows of sales
_generate_sale_number(rows) ==
    IF rows = <<>> THEN format_sale_number(1)
    ELSE LET numbers == {rows[i].sale_number : i \in DOMAIN rows}
             last_sale == CHOOSE n \in numbers :
                              \A m \in numbers : m = n \/ StringBefore(m, n)
         IN  format_sale_number(last_four(last_sale) + 1)

UniqueViolationIgnored(rows, sale_number) == FALSE

\* sale_number is unique: the INSERT of a number the table holds fails.
UniqueViolation(rows, sale_number) ==
    \E i \in DOMAIN rows : rows[i].sale_number = sale_number

\* The loop of process_sale that reserves stock for the cart's items in turn.
\* Each reserve_stock that succeeds commits; the first that fails ends the
\* loop with the lines of the items before it. The tables of InitSale give
\* every row its own expiry date, so the FIFO order is one order.
RECURSIVE ReserveItems(_, _, _, _)
ReserveItems(bs, items, i, reservations) ==
    IF i > Len(items) THEN [ok |-> TRUE, bs |-> bs, lines |-> reservations]
    ELSE LET order == CHOOSE o \in Orderings(bs, Reservable(bs, items[i].product_id),
                                             TRUE) : TRUE
             r == AllocLoop(bs, order, 1, items[i].quantity, <<>>)
         IN  IF r.remaining > 0
             THEN [ok |-> FALSE, bs |-> bs, lines |-> reservations]
             ELSE ReserveItems(r.bs, items, i + 1, reservations \o r.lines)

\* The SaleItem process_sale creates for a cart item: it takes item.quantity
\* reservations from reservation_index on, as many as are left, and names the
\* batch of the first one taken; with none taken inventory_batch_id is None,
\* written 0.
SaleItem(item, reservations, reservation_index) ==
    LET taken == Min(item.quantity, Max(0, Len(reservations) - reservation_index))
    IN  [product_id |-> item.product_id, quantity |-> item.quantity,
         inventory_batch_id |->
             IF taken > 0 THEN reservations[reservation_index + 1].batch_id ELSE 0,
         taken |-> taken]

\* The sale items of a cart, in the order of its items
RECURSIVE SaleItems(_, _, _, _)
SaleItems(items, reservations, i, reservation_index) ==
    IF i > Len(items) THEN <<>>
    ELSE LET sale_item == SaleItem(items[i], reservations, reservation_index)
         IN  <<[product_id |-> sale_item.product_id,
                quantity |-> sale_item.quantity,
                inventory_batch_id |-> sale_item.inventory_batch_id]>>
             \o SaleItems(items, reservations, i + 1,
                          reservation_index + sale_item.taken)

\* The record of a process_sale call
SaleCall(ok, session_id, sale_number, cart, reservations, sale_items) ==
    [op |-> "process_sale", ok |-> ok, session_id |-> session_id,
     sale_number |-> sale_number, cart |-> cart, lines |-> reservations,
     items |-> sale_items, moves |-> movements]

\* The stock of the rows of the tables sales are made on: product,
\* current_quantity and reserved_quantity; the reserved units are held by
\* other sessions.
SaleStock == {<<1, 1, 0>>, <<1, 2, 0>>, <<1, 2, 1>>, <<2, 1, 0>>, <<2, 2, 0>>, <<2, 2, 1>>}

SaleRow(stock, i) ==
    [product_id |-> stock[1], initial_quantity |-> 2, current_quantity |-> stock[2],
     reserved_quantity |-> stock[3], expiry_date |-> Today + 10 * i,
     is_active |-> TRUE, is_expired |-> FALSE]

\* The carts add_to_cart and set_customer may have left for a sale: up to two
\* items of different products, with or without a customer.
SaleCarts ==
    {[items |-> items, customer_id |-> c] :
        items \in {<<>>}
            \cup {<<[product_id |-> p, quantity |-> q]>> : p \in 1..2, q \in 1..2}
            \cup {<<[product_id |-> p[1], quantity |-> q[1]],
                    [product_id |-> p[2], quantity |-> q[2]]>> :
                     p \in {<<1, 2>>, <<2, 1>>}, q \in (1..2) \X (1..2)},
        c \in 0..1}

InitSale ==
    /\ batches \in UNION {{[i \in 1..n |-> SaleRow(c[i], i)] : c \in [1..n -> SaleStock]} :
                             n \in 1..MaxSaleRows}
    /\ movements = EmptyBag
    /\ held = <<>>
    /\ pre = <<>>
    /\ sess = [s \in Sessions |-> IdleSession]
    /\ last = [op |-> "none"]
    /\ carts \in {c \in [Sessions -> SaleCarts] :
                     \A s \in Sessions \ {1} :
                         c[s] \in {Cart, [items |-> <<[product_id |-> 1, quantity |-> 1]>>,
                                          customer_id |-> 0]}}
    /\ sales = <<>>

\* process_sale in a session, up to the sale number it generates. An empty
\* cart raises before that.
generate_sale_number(session_id) ==
    /\ sess[session_id].pc = "idle"
    /\ Len(sales) < MaxSales
    /\ IF carts[session_id].items = <<>>
       THEN /\ last' = SaleCall(FALSE, session_id, <<>>, <<>>, <<>>, <<>>)
            /\ pre' = batches
            /\ sess' = sess
       ELSE /\ sess' = [sess EXCEPT ![session_id] =
                           [pc |-> "numbered",
                            sale_number |-> _generate_sale_number(sales)]]
            /\ UNCHANGED <<last, pre>>
    /\ UNCHANGED <<batches, movements, held, carts, sales>>

\* process_sale from the reservation of the cart's items to its return or
\* raise. loyalty_raises: _update_customer_loyalty raises (it runs for a cart
\* with a customer). released: after a flush that failed the session still
\* runs the statements of release_reservation; whether it does is not decided
\* by this code.
complete_sale(session_id, loyalty_raises, released) ==
    /\ sess[session_id].pc = "numbered"
    /\ LET cart == carts[session_id]
           sale_number == sess[session_id].sale_number
           r == ReserveItems(batches, cart.items, 1, <<>>)
           sale_items == SaleItems(cart.items, r.lines, 1, 0)
           confirmed == ConfirmAll(r.bs, r.lines, 1)
       IN  IF ~r.ok
           THEN /\ batches' = ReleaseAll(r.bs, r.lines, 1)
                /\ last' = SaleCall(FALSE, session_id, sale_number, cart.items,
                                    r.lines, <<>>)
                /\ UNCHANGED <<movements, sales, carts>>
           ELSE IF UniqueViolation(sales, sale_number)
           THEN /\ batches' = IF released THEN ReleaseAll(r.bs, r.lines, 1) ELSE r.bs
                /\ last' = SaleCall(FALSE, session_id, sale_number, cart.items,
                                    r.lines, <<>>)
                /\ UNCHANGED <<movements, sales, carts>>
           ELSE /\ movements' = movements (+) SaleMovements(r.bs, r.lines, sale_number, 1)
                /\ sales' = Append(sales, [sale_number |-> sale_number,
                                           items |-> sale_items])
                /\ IF cart.customer_id # 0 /\ loyalty_raises
                   THEN /\ batches' = ReleaseAll(confirmed, r.lines, 1)
                        /\ last' = SaleCall(FALSE, session_id, sale_number,
                                            cart.items, r.lines, sale_items)
                        /\ carts' = carts
                   ELSE /\ batches' = confirmed
                        /\ last' = SaleCall(TRUE, session_id, sale_number,
                                            cart.items, r.lines, sale_items)
                        /\ carts' = [carts EXCEPT ![session_id] = Cart]
    /\ pre' = batches
    /\ sess' = [sess EXCEPT ![session_id] = IdleSession]
    /\ UNCHANGED held

GenerateSaleNumber == \E s \in Sessions : generate_sale_number(s)

CompleteSale == \E s \in Sessions, l, r \in BOOLEAN : complete_sale(s, l, r)

\* process_sale calls of several sessions; a call runs from its sale number to
\* its end without another session coming in between.
NextSale ==
    \/ GenerateSaleNumber
    \/ CompleteSale

SpecSale == InitSale /\ [][NextSale]_vars

\* ---------------------------------------------------------------- configuration
\* The values the environment may give a day threshold. The fields of Settings
\* are typed int; any integer is accepted.
ThresholdValues == {-1, 7, 30, 90, 180}

Environments ==
    [expiry_alert_1_week : ThresholdValues, expiry_alert_1_month : ThresholdValues,
     expiry_alert_3_months : ThresholdValues, expiry_alert_6_months : ThresholdValues]

\* Settings(): the instance built at import holds each field as the
\* environment gives it; the class has no validator.
Settings(env) ==
    [expiry_alert_1_week |-> env.expiry_alert_1_week,
     expiry_alert_1_month |-> env.expiry_alert_1_month,
     expiry_alert_3_months |-> env.expiry_alert_3_months,
     expiry_alert_6_months |-> env.expiry_alert_6_months]

\* ExpiryService._calculate_alert_level, reading the thresholds of the
\* settings instance the service holds.
_calculate_alert_levelWith(settings, days_until_expiry) ==
    IF days_until_expiry <= settings.expiry_alert_1_week THEN "critical"
    ELSE IF days_until_expiry <= settings.expiry_alert_1_month THEN "high"
    ELSE IF days_until_expiry <= settings.expiry_alert_3_months THEN "medium"
    ELSE IF days_until_expiry <= settings.expiry_alert_6_months THEN "low"
    ELSE "info"

ConfigDays == {-5, 0, 10, 100}

\* Before startup: the environment holds the four thresholds.
InitConfig ==
    /\ batches = <<>>
    /\ movements = EmptyBag
    /\ held = <<>>
    /\ pre = <<>>
    /\ sess = [s \in Sessions |-> IdleSession]
    /\ last \in [op : {"env"}, env : Environments]
    /\ carts = [s \in Sessions |-> Cart]
    /\ sales = <<>>

\* Startup: settings = Settings()
load_settings ==
    /\ last.op = "env"
    /\ last' = [op |-> "settings", settings |-> Settings(last.env)]
    /\ UNCHANGED <<batches, movements, held, pre, sess>>
    /\ UNCHANGED <<carts, sales>>

\* A request after startup: ExpiryService(db) takes get_settings() and
\* classifies a number of days.
serve_alert_level(days_until_expiry) ==
    /\ last.op = "settings"
    /\ last' = [op |-> "served", settings |-> last.settings,
                days |-> days_until_expiry,
                level |-> _calculate_alert_levelWith(last.settings,
                                                     days_until_expiry)]
    /\ UNCHANGED <<batches, movements, held, pre, sess>>
    /\ UNCHANGED <<carts, sales>>

ServeAlertLevel == \E d \in ConfigDays : serve_alert_level(d)

NextConfig ==
    \/ load_settings
    \/ ServeAlertLevel

SpecConfig == InitConfig /\ [][NextConfig]_vars

\* ---------------------------------------------------------------- properties
\* Sum of current - reserved over the batches reserve_stock would select.
RECURSIVE SumAvailable(_, _)
SumAvailable(bs, ids) ==
    IF ids = {} THEN 0
    ELSE LET i == CHOOSE x \in ids : TRUE
         IN  available_quantity(bs[i]) + SumAvailable(bs, ids \ {i})

TotalAvailable(bs, product_id) == SumAvailable(bs, Reservable(bs, product_id))

\* The quantity a list of reservation lines takes from batch b.
RECURSIVE Allocated(_, _, _)
Allocated(reservations, b, i) ==
    IF i > Len(reservations) THEN 0
    ELSE (IF reservations[i].batch_id = b THEN reservations[i].quantity ELSE 0)
         + Allocated(reservations, b, i + 1)

\* The quantity held on batch b by reservations not yet released or confirmed.
RECURSIVE HeldOpen(_, _)
HeldOpen(b, i) ==
    IF i > Len(held) THEN 0
    ELSE (IF held[i].status = "open" THEN Allocated(held[i].lines, b, 1) ELSE 0)
         + HeldOpen(b, i + 1)

\* C1: in every reachable state every batch has
\* reserved_quantity <= current_quantity.
ReservedWithinCurrent ==
    \A b \in DOMAIN batches :
        batches[b].reserved_quantity <= batches[b].current_quantity

AllocationCorrectness ==
    (last.op = "reserve" /\ TotalAvailable(pre, last.product_id) >= last.quantity)
    => /\ last.ok
       /\ SumQuantity(last.lines, 1) = last.quantity
       /\ \A b \in DOMAIN batches :
              batches[b].reserved_quantity <= batches[b].current_quantity

\* C4: while reserve_stock calls of several sessions interleave, no batch has
\* reserved_quantity > current_quantity, and the quantity held on a batch by
\* returned reservations that are neither released nor confirmed is at most
\* the batch's current_quantity.
NoOverCommit ==
    \A b \in DOMAIN batches :
        /\ batches[b].reserved_quantity <= batches[b].current_quantity
        /\ HeldOpen(b, 1) <= batches[b].current_quantity

\* C5: every batch has 0 <= current_quantity <= initial_quantity and
\* reserved_quantity >= 0, and no call changes a batch's initial_quantity.
QuantityBounds ==
    \A b \in DOMAIN batches :
        /\ 0 <= batches[b].current_quantity
        /\ batches[b].current_quantity <= batches[b].initial_quantity
        /\ batches[b].reserved_quantity >= 0
        /\ b \in DOMAIN pre => batches[b].initial_quantity = pre[b].initial_quantity

\* The batches of the test fixture that expire in 60, 3 and 20 days.
FixtureBatches ==
    << [product_id |-> 1, initial_quantity |-> 200, current_quantity |-> 150,
        reserved_quantity |-> 0, expiry_date |-> 60, is_active |-> TRUE,
        is_expired |-> FALSE],
       [product_id |-> 1, initial_quantity |-> 50, current_quantity |-> 30,
        reserved_quantity |-> 0, expiry_date |-> 3, is_active |-> TRUE,
        is_expired |-> FALSE],
       [product_id |-> 1, initial_quantity |-> 100, current_quantity |-> 75,
        reserved_quantity |-> 0, expiry_date |-> 20, is_active |-> TRUE,
        is_expired |-> FALSE] >>

\* The need left when line i of a reservation is allocated.
RemainingBefore(quantity, reservations, i) ==
    quantity - (SumQuantity(reservations, 1) - SumQuantity(reservations, i))

\* C6: a successful reserve_stock under the default policy takes from the
\* batches in ascending expiry order, from each min(remaining need, current -
\* reserved); a batch is allocated from only if every reservable batch of the
\* product that expires earlier was allocated its whole available quantity;
\* batches expiring in 3/20/60 days with 30/75/150 units give 30 and 10 for a
\* request of 40.
FifoAllocation ==
    /\ \A order \in Orderings(FixtureBatches, Reservable(FixtureBatches, 1), TRUE) :
          AllocLoop(FixtureBatches, order, 1, 40, <<>>).lines
             = << [batch_id |-> 2, quantity |-> 30], [batch_id |-> 3, quantity |-> 10] >>
    /\ (last.op = "reserve" /\ last.ok /\ last.prefer_fifo)
       => /\ \A i \in DOMAIN last.lines :
                last.lines[i].quantity =
                    Min(RemainingBefore(last.quantity, last.lines, i),
                        available_quantity(pre[last.lines[i].batch_id]))
          /\ \A i, j \in DOMAIN last.lines :
                i < j => pre[last.lines[i].batch_id].expiry_date
                            <= pre[last.lines[j].batch_id].expiry_date
          /\ \A i \in DOMAIN last.lines :
                \A b \in Reservable(pre, last.product_id) :
                    pre[b].expiry_date < pre[last.lines[i].batch_id].expiry_date
                    => Allocated(last.lines, b, 1) = available_quantity(pre[b])

\* C6 witness: a successful FIFO reserve_stock that emptied the earlier-expiring
\* batch, inserted after the later-expiring one, and took the rest from the
\* later one.
FifoAllocationWitness ==
    /\ last.op = "reserve" /\ last.ok /\ last.prefer_fifo
    /\ Len(last.lines) = 2
    /\ last.lines[1].batch_id > last.lines[2].batch_id
    /\ pre[last.lines[1].batch_id].expiry_date < pre[last.lines[2].batch_id].expiry_date
    /\ last.lines[2].quantity < available_quantity(pre[last.lines[2].batch_id])

\* The SALE movement C7 expects for line i of the confirmed reservation.
ExpectedSale(i) ==
    [movement_type |-> "sale",
     product_id |-> pre[last.lines[i].batch_id].product_id,
     batch_id |-> last.lines[i].batch_id,
     quantity |-> -(last.lines[i].quantity),
     reference_number |-> last.reference]

\* C7: confirm_sale on a reservation that reserve_stock returned and that was
\* neither released nor confirmed lowers current_quantity and reserved_quantity
\* of each line's batch by the line quantity, and records exactly one SALE
\* movement per line, with the batch, its product, minus the line quantity and
\* the reference given.
ConfirmEffect ==
    (last.op = "confirm" /\ last.was_open)
    => /\ \A i \in DOMAIN last.lines :
             LET b == last.lines[i].batch_id
                 q == last.lines[i].quantity
             IN  /\ batches[b].current_quantity = pre[b].current_quantity - q
                 /\ batches[b].reserved_quantity = pre[b].reserved_quantity - q
                 /\ available_quantity(batches[b]) = available_quantity(pre[b])
       /\ BagCardinality(movements) = BagCardinality(last.moves) + Len(last.lines)
       /\ \A m \in BagToSet(movements) :
             CopiesIn(m, movements) =
                 CopiesIn(m, last.moves)
                 + Cardinality({i \in DOMAIN last.lines : ExpectedSale(i) = m})

\* C7 witness: a first confirm_sale of a reservation of two lines.
ConfirmEffectWitness ==
    /\ last.op = "confirm" /\ last.was_open
    /\ Len(last.lines) = 2

\* A line confirm_sale can apply: its batch exists, is not expired and still
\* has the line quantity in stock.
LineApplicable(bs, reservation) ==
    /\ reservation.batch_id \in DOMAIN bs
    /\ ~bs[reservation.batch_id].is_expired
    /\ bs[reservation.batch_id].current_quantity >= reservation.quantity

\* C8: a confirm_sale of an outstanding reservation with a line that cannot be
\* applied (batch missing, expired meanwhile, or shrunk below the reserved
\* amount) ends in a reported error; it never completes normally.
ConfirmFailureIsFatal ==
    (last.op = "confirm" /\ last.was_open
        /\ \E i \in DOMAIN last.lines : ~LineApplicable(pre, last.lines[i]))
    => ~last.ok

\* C9: confirm_sale rejects a line whose quantity exceeds the batch's
\* current_quantity or reserved_quantity and leaves both unchanged.
SaleDeductionGuard ==
    last.op = "confirm"
    => \A i \in DOMAIN last.lines :
          LET b == last.lines[i].batch_id
              q == last.lines[i].quantity
          IN  (q > pre[b].current_quantity \/ q > pre[b].reserved_quantity)
              => /\ ~last.ok
                 /\ batches[b].current_quantity = pre[b].current_quantity
                 /\ batches[b].reserved_quantity = pre[b].reserved_quantity

\* C10: release_reservation, however often it is called on a reservation, sets
\* the reserved_quantity of each line's batch to max(0, reserved - quantity)
\* and makes no batch's reserved_quantity negative.
IdempotentRelease ==
    last.op = "release"
    => /\ \A i \in DOMAIN last.lines :
             LET b == last.lines[i].batch_id
             IN  /\ batches[b].reserved_quantity =
                        Max(0, pre[b].reserved_quantity - last.lines[i].quantity)
                 /\ batches[b].reserved_quantity >= 0
       /\ \A b \in DOMAIN batches :
             pre[b].reserved_quantity >= 0 => batches[b].reserved_quantity >= 0

\* C10 witness: a repeated release_reservation of a reservation whose batch has
\* less reserved than the line quantity, so that the clamp decides the result.
IdempotentReleaseWitness ==
    /\ last.op = "release"
    /\ ~last.was_open
    /\ held[last.res].status = "released"
    /\ \E i \in DOMAIN last.lines :
          pre[last.lines[i].batch_id].reserved_quantity < last.lines[i].quantity

\* C11: a successful reserve_stock followed by release_reservation of the
\* returned lines, with no call in between, leaves every batch's
\* reserved_quantity as it was before the reserve and its current_quantity
\* unchanged.
ReserveReleaseRoundTrip ==
    last.op = "reserve_release"
    => /\ DOMAIN batches = DOMAIN pre
       /\ \A b \in DOMAIN batches :
             /\ batches[b].reserved_quantity = pre[b].reserved_quantity
             /\ batches[b].current_quantity = pre[b].current_quantity

\* C12: reserve_stock allocates only from batches of the requested product that
\* are active, not expired and have current_quantity > reserved_quantity; no
\* line of a returned reservation names a batch with current_quantity 0, an
\* inactive batch or an expired batch.
ReservableSet ==
    (last.op = "reserve" /\ last.ok)
    => \A i \in DOMAIN last.lines :
          LET b == pre[last.lines[i].batch_id]
          IN  /\ b.product_id = last.product_id
              /\ b.is_active
              /\ ~b.is_expired
              /\ b.current_quantity > b.reserved_quantity
              /\ b.current_quantity # 0

\* C13: once a batch is marked expired, in every later state its
\* current_quantity is 0, no reserve_stock allocates from it, and
\* get_expiry_alerts returns no alert for it, whatever min_quantity >= 0, level
\* filter and include_expired it is called with.
ExpiredIsTerminal ==
    \A b \in DOMAIN batches :
        batches[b].is_expired
        => /\ batches[b].current_quantity = 0
           /\ (last.op = "reserve" /\ last.ok /\ b \in DOMAIN pre /\ pre[b].is_expired)
                 => Allocated(last.lines, b, 1) = 0
           /\ \A alert_levels \in SUBSET AlertLevels, min_quantity \in 0..MaxQty,
                 include_expired \in BOOLEAN :
                 b \notin AlertBatches(batches, alert_levels, min_quantity,
                                       include_expired)

\* C14: mark_batch_expired on an existing batch with current_quantity > 0
\* succeeds, sets current_quantity to 0 and is_expired to True and records one
\* "expired" movement whose quantity is minus the previous current_quantity;
\* on an unknown batch id or a batch with current_quantity <= 0 it reports
\* failure, changes no batch and records no movement.
MarkExpiredContract ==
    last.op = "expire"
    => LET b == last.batch_id
       IN  IF b \in DOMAIN pre /\ pre[b].current_quantity > 0
           THEN /\ last.ok
                /\ batches = [pre EXCEPT ![b].current_quantity = 0,
                                         ![b].is_expired = TRUE]
                /\ movements = last.moves (+) SetToBag({
                      [movement_type |-> "expired", product_id |-> pre[b].product_id,
                       batch_id |-> b, quantity |-> -(pre[b].current_quantity),
                       reference_number |-> ""]})
           ELSE /\ ~last.ok
                /\ batches = pre
                /\ movements = last.moves

\* C14 witness: mark_batch_expired succeeded on a batch that held two units,
\* one of them reserved.
MarkExpiredContractWitness ==
    /\ last.op = "expire" /\ last.ok
    /\ pre[last.batch_id].current_quantity = 2
    /\ pre[last.batch_id].reserved_quantity = 1
    /\ batches[last.batch_id].is_expired

\* C15: release_reservation of an outstanding reservation one of whose batches
\* has been marked expired completes without error, and afterwards that batch
\* has 0 <= reserved_quantity <= current_quantity.
ReleaseAfterExpiry ==
    (last.op = "release" /\ last.was_open)
    => \A i \in DOMAIN last.lines :
          LET b == last.lines[i].batch_id
          IN  pre[b].is_expired
              => /\ last.ok
                 /\ batches[b].reserved_quantity >= 0
                 /\ batches[b].reserved_quantity <= batches[b].current_quantity

LevelPartition ==
    /\ _calculate_alert_level(7) = "critical"
    /\ _calculate_alert_level(8) = "high"
    /\ _calculate_alert_level(30) = "high"
    /\ _calculate_alert_level(31) = "medium"
    /\ _calculate_alert_level(90) = "medium"
    /\ _calculate_alert_level(91) = "low"
    /\ _calculate_alert_level(180) = "low"
    /\ _calculate_alert_level(181) = "info"
    /\ last.op = "alert_level"
       => /\ last.level \in AlertLevels
          /\ last.level = "critical" <=> last.days <= 7
          /\ last.level = "high" <=> (7 < last.days /\ last.days <= 30)
          /\ last.level = "medium" <=> (30 < last.days /\ last.days <= 90)
          /\ last.level = "low" <=> (90 < last.days /\ last.days <= 180)
          /\ last.level = "info" <=> last.days > 180
          /\ last.days < 0 => last.level = "critical"

\* C17 witness: the level of a batch that expired 3 days ago was computed.
LevelPartitionWitness ==
    /\ last.op = "alert_level"
    /\ last.days = -3
    /\ last.level = "critical"

\* C18: for every days value, negative ones included, every quantity >= 0,
\* every unit price >= 0 and either controlled flag the priority score is
\* >= 0 and <= 1.5, and it is <= 1.0 for an item that is not a controlled
\* substance.
ScoreRange ==
    last.op = "priority_score"
    => /\ last.score >= 0
       /\ last.score <= 1500
       /\ ~last.is_controlled => last.score <= 1000

\* C19: the score computed with the controlled flag set equals
\* round(1.5 * s, 3), s being the rounded score of the same days, quantity and
\* unit price with the flag cleared.
ControlledMultiplier ==
    (last.op = "priority_score" /\ last.is_controlled)
    => last.score =
          RoundHalfEven(3 * _calculate_priority_score(last.days, last.quantity,
                                                      last.unit_cents, FALSE), 2)

\* C20: with the other arguments fixed the priority score does not increase
\* when days_until_expiry increases and does not decrease when the quantity or
\* the unit price increases.
ScoreMonotonic ==
    last.op = "priority_score"
    => /\ \A d \in ScoreDays :
             d >= last.days
             => _calculate_priority_score(d, last.quantity, last.unit_cents,
                                          last.is_controlled) <= last.score
       /\ \A q \in ScoreQuantities :
             q >= last.quantity
             => _calculate_priority_score(last.days, q, last.unit_cents,
                                          last.is_controlled) >= last.score
       /\ \A c \in ScoreCents :
             c >= last.unit_cents
             => _calculate_priority_score(last.days, last.quantity, c,
                                          last.is_controlled) >= last.score

\* C20 witness: a score with all three parts strictly between their bounds was
\* computed: the batch expires in 100 days, holds 25 units at 2.50.
ScoreMonotonicWitness ==
    /\ last.op = "priority_score"
    /\ last.days = 100
    /\ last.quantity = 25
    /\ last.unit_cents = 250
    /\ last.score = _calculate_priority_score(100, 25, 250, last.is_controlled)
    /\ last.score > _calculate_priority_score(101, 25, 250, last.is_controlled)
    /\ last.score < _calculate_priority_score(100, 50, 250, last.is_controlled)

\* C21: whatever the table and the filters, the list get_expiry_alerts returns
\* is sorted by non-increasing priority score: alerts[i].priority_score >=
\* alerts[i+1].priority_score for every adjacent pair.
PriorityOrdering ==
    last.op = "alerts"
    => \A i \in 1..(Len(last.alerts) - 1) :
          last.alerts[i].priority_score >= last.alerts[i + 1].priority_score

\* C21 witness: a list of two alerts of different scores, the batch inserted
\* later first.
PriorityOrderingWitness ==
    /\ last.op = "alerts"
    /\ Len(last.alerts) = 2
    /\ last.alerts[1].batch_id > last.alerts[2].batch_id
    /\ last.alerts[1].priority_score > last.alerts[2].priority_score

\* C22: of two returned alerts with equal priority scores the one with the
\* smaller days_until_expiry comes first, in whatever order the rows were
\* read.
DeterministicTieBreak ==
    last.op = "alerts"
    => \A i, j \in DOMAIN last.alerts :
          (/\ i < j
           /\ last.alerts[i].priority_score = last.alerts[j].priority_score)
          => last.alerts[i].days_until_expiry <= last.alerts[j].days_until_expiry

\* The rows of the table that a query with the given min_quantity survives
\* without looking at dates or levels: active batches of active products with
\* current_quantity >= min_quantity.
Eligible(bs, min_quantity) ==
    {b \in DOMAIN bs : /\ bs[b].is_active
                       /\ Catalogue[bs[b].product_id].is_active
                       /\ bs[b].current_quantity >= min_quantity}

\* The batch ids of the alerts returned.
Returned == {last.alerts[i].batch_id : i \in DOMAIN last.alerts}

\* C23: with include_expired false no returned alert has days_until_expiry < 0
\* and a batch expiring today is still returned; with include_expired true
\* every active, sufficiently stocked batch of an active product whose expiry
\* date is past is returned, with alert level critical (unless a level filter
\* without critical was given).
ExpiredFilter ==
    last.op = "alerts"
    => /\ ~last.include_expired
          => /\ \A i \in DOMAIN last.alerts : last.alerts[i].days_until_expiry >= 0
             /\ \A b \in Eligible(batches, last.min_quantity) :
                   (/\ batches[b].expiry_date = Today
                    /\ (last.alert_levels.levels = {}
                        \/ "critical" \in last.alert_levels.levels))
                   => b \in Returned
       /\ (/\ last.include_expired
           /\ (last.alert_levels.levels = {}
               \/ "critical" \in last.alert_levels.levels))
          => \A b \in Eligible(batches, last.min_quantity) :
                batches[b].expiry_date < Today
                => \E i \in DOMAIN last.alerts :
                      /\ last.alerts[i].batch_id = b
                      /\ last.alerts[i].alert_level = "critical"

\* C23 witness: a query with include_expired true returned a batch that
\* expired yesterday and one that expires today.
ExpiredFilterWitness ==
    /\ last.op = "alerts"
    /\ last.include_expired
    /\ \E i, j \in DOMAIN last.alerts :
          /\ last.alerts[i].days_until_expiry = -1
          /\ last.alerts[j].days_until_expiry = 0

\* The batches that survive the query of the last call: eligible, and not past
\* their expiry date unless include_expired was set.
Surviving ==
    {b \in Eligible(batches, last.min_quantity) :
        last.include_expired \/ batches[b].expiry_date >= Today}

\* C24: with a list of levels given, the empty list included, the alerts
\* returned are exactly those of the surviving batches whose alert level is in
\* the list; with no list given every surviving batch yields an alert.
LevelFilter ==
    last.op = "alerts"
    => /\ Len(last.alerts) = Cardinality(Returned)
       /\ Returned =
             IF last.alert_levels.given
             THEN {b \in Surviving :
                      _calculate_alert_level(batches[b].expiry_date - Today)
                          \in last.alert_levels.levels}
             ELSE Surviving

\* The surviving batches whose alert level the level filter of the last call
\* asks for.
Wanted ==
    IF last.alert_levels.given
    THEN {b \in Surviving :
             _calculate_alert_level(batches[b].expiry_date - Today)
                 \in last.alert_levels.levels}
    ELSE Surviving

\* C25: for every min_quantity m every returned alert has current_quantity >= m,
\* and no batch with current_quantity >= m that passes the other filters is
\* left out.
MinQuantityFilter ==
    last.op = "alerts"
    => /\ \A i \in DOMAIN last.alerts :
             /\ last.alerts[i].current_quantity >= last.min_quantity
             /\ batches[last.alerts[i].batch_id].current_quantity
                    >= last.min_quantity
       /\ Wanted \subseteq Returned

\* C25 witness: a query with min_quantity 100 on a table with a batch of 150
\* and a batch of 30 that differ in nothing the other filters look at returned
\* the batch of 150 alone.
MinQuantityFilterWitness ==
    /\ last.op = "alerts"
    /\ last.min_quantity = 100
    /\ Len(last.alerts) = 1
    /\ \E b \in DOMAIN batches :
          /\ batches[b].current_quantity = 30
          /\ b \in Eligible(batches, 0)
          /\ batches[b].expiry_date = batches[last.alerts[1].batch_id].expiry_date

\* The window of each summary bucket, in days from today.
WindowDays ==
    [critical |-> expiry_alert_1_week, high |-> expiry_alert_1_month,
     medium |-> expiry_alert_3_months, low |-> expiry_alert_6_months]

\* The active, in-stock batches of active products that expire within the
\* window of a level and have not expired.
InWindow(level) ==
    {b \in DOMAIN batches :
        /\ batches[b].is_active
        /\ batches[b].current_quantity > 0
        /\ Catalogue[batches[b].product_id].is_active
        /\ Today <= batches[b].expiry_date
        /\ batches[b].expiry_date <= Today + WindowDays[level]}

\* C26: each bucket of the summary counts exactly the active, in-stock batches
\* of active products with today <= expiry_date <= today + the level's
\* threshold; the buckets are nested in count and in quantity, and such a batch
\* classified critical is counted in all four.
NestedBuckets ==
    last.op = "summary"
    => LET bucket == last.summary.expiry_breakdown
       IN  /\ DOMAIN bucket = {"critical", "high", "medium", "low"}
           /\ \A level \in DOMAIN bucket :
                 /\ bucket[level].batches = Cardinality(InWindow(level))
                 /\ bucket[level].quantity = SumCurrent(batches, InWindow(level))
           /\ bucket["critical"].batches <= bucket["high"].batches
           /\ bucket["high"].batches <= bucket["medium"].batches
           /\ bucket["medium"].batches <= bucket["low"].batches
           /\ bucket["critical"].quantity <= bucket["high"].quantity
           /\ bucket["high"].quantity <= bucket["medium"].quantity
           /\ bucket["medium"].quantity <= bucket["low"].quantity
           /\ \A b \in InWindow("low") :
                 _calculate_alert_level(batches[b].expiry_date - Today) = "critical"
                 => \A level \in DOMAIN bucket : b \in InWindow(level)

\* C26 witness: a summary of a table with a batch expiring today and a batch
\* expiring in eight days: the first is in all four buckets, the second in
\* three.
NestedBucketsWitness ==
    /\ last.op = "summary"
    /\ \E b, c \in DOMAIN batches :
          /\ batches[b].expiry_date = Today
          /\ batches[c].expiry_date = Today + 8
          /\ {b, c} \subseteq InWindow("low")
    /\ last.summary.expiry_breakdown["critical"].batches = 1
    /\ last.summary.expiry_breakdown["high"].batches = 2
    /\ last.summary.expiry_breakdown["low"].batches = 2

\* The batches the totals of the summary are said to be computed over: active,
\* in stock, of an active product, and not expired by date.
Unexpired ==
    {b \in DOMAIN batches :
        /\ batches[b].is_active
        /\ batches[b].current_quantity > 0
        /\ Catalogue[batches[b].product_id].is_active
        /\ batches[b].expiry_date >= Today}

\* C27: total_batches, total_quantity and total_value of the summary are
\* computed over exactly the active, in-stock batches of active products with
\* expiry_date >= today; no batch of the expired bucket is in the totals.
SummaryTotals ==
    last.op = "summary"
    => /\ last.summary.total_batches = Cardinality(Unexpired)
       /\ last.summary.total_quantity = SumCurrent(batches, Unexpired)
       /\ last.summary.total_value = SumValue(batches, Unexpired)

\* C28: on the five batches of the fixture (expiring in 3, 20, 60, 120 and 300
\* days, holding 30, 75, 150, 250 and 350 units at 15.00) the alert query
\* without a level filter returns exactly five alerts, one of each level, the
\* query for the critical level returns exactly the batch expiring in 3 days,
\* and the summary reports total_batches = 5.
FixtureScenario ==
    batches = FixtureAlertBatches
    => /\ (last.op = "alerts" /\ ~last.alert_levels.given /\ last.min_quantity <= 1)
          => /\ Len(last.alerts) = 5
             /\ \A level \in AlertLevels :
                   Cardinality({i \in DOMAIN last.alerts :
                                   last.alerts[i].alert_level = level}) = 1
             /\ {last.alerts[i].batch_id : i \in DOMAIN last.alerts} = 1..5
       /\ (/\ last.op = "alerts"
           /\ last.alert_levels = [given |-> TRUE, levels |-> {"critical"}]
           /\ last.min_quantity <= 1)
          => /\ Len(last.alerts) = 1
             /\ last.alerts[1].days_until_expiry = 3
             /\ last.alerts[1].current_quantity = 30
             /\ last.alerts[1].alert_level = "critical"
       /\ last.op = "summary" => last.summary.total_batches = 5

\* C28 witness: the query for the critical level has been made on the fixture
\* and returned one alert.
FixtureScenarioWitness ==
    /\ batches = FixtureAlertBatches
    /\ last.op = "alerts"
    /\ last.alert_levels = [given |-> TRUE, levels |-> {"critical"}]
    /\ last.min_quantity = 1
    /\ ~last.include_expired
    /\ Len(last.alerts) = 1

\* C29: the recommended action depends on the alert level and the quantity
\* only: critical gives the bulk-discount advice iff quantity > 50 and the
\* prioritize-sale advice otherwise, both marked URGENT; high gives the
\* promotional-pricing advice iff quantity > 100 and the
\* prioritize-in-recommendations advice otherwise; medium, low and info give
\* one advice each; the result is never empty.
RecommendedAction ==
    last.op = "recommended_action"
    => /\ last.action # ""
       /\ last.alert_level = "critical"
          => /\ (last.action = "URGENT: Consider bulk discount sale or return to supplier")
                    <=> last.quantity > 50
             /\ (last.action = "URGENT: Prioritize sale or mark for disposal")
                    <=> last.quantity <= 50
       /\ last.alert_level = "high"
          => /\ (last.action = "Implement promotional pricing or contact supplier for return")
                    <=> last.quantity > 100
             /\ (last.action = "Prioritize in sales recommendations")
                    <=> last.quantity <= 100
       /\ last.alert_level = "medium"
          => last.action = "Monitor closely and consider promotional strategies"
       /\ last.alert_level = "low"
          => last.action = "Plan inventory rotation and adjust reorder quantities"
       /\ last.alert_level = "info"
          => last.action = "Monitor for future planning"

\* C29 witness: a critical alert for exactly 50 units has been given the
\* prioritize-sale advice.
RecommendedActionWitness ==
    /\ last.op = "recommended_action"
    /\ last.alert_level = "critical"
    /\ last.quantity = 50
    /\ last.action = "URGENT: Prioritize sale or mark for disposal"

\* C30: the estimated_value of every returned alert is the batch's
\* current_quantity times its unit selling price, whatever part of that
\* quantity is reserved.
EstimatedValue ==
    last.op = "alerts"
    => \A i \in DOMAIN last.alerts :
          LET row == batches[last.alerts[i].batch_id]
          IN  last.alerts[i].estimated_value
                  = row.current_quantity * row.selling_cents

\* C30 witness: an alert was returned for a batch of 30 units of which 10 are
\* reserved, with the value of all 30.
EstimatedValueWitness ==
    /\ last.op = "alerts"
    /\ \E i \in DOMAIN last.alerts :
          /\ batches[last.alerts[i].batch_id].current_quantity = 30
          /\ batches[last.alerts[i].batch_id].reserved_quantity = 10
          /\ last.alerts[i].estimated_value = 30 * 1500

\* Day thresholds that are not negative and grow from critical to low.
ThresholdsValid(settings) ==
    /\ settings.expiry_alert_1_week >= 0
    /\ settings.expiry_alert_1_week <= settings.expiry_alert_1_month
    /\ settings.expiry_alert_1_month <= settings.expiry_alert_3_months
    /\ settings.expiry_alert_3_months <= settings.expiry_alert_6_months

\* C31: a configuration with negative or non-monotonic day thresholds is
\* rejected at startup: no classification is served with such thresholds.
ThresholdValidation ==
    last.op = "served" => ThresholdsValid(last.settings)

\* Session s ends its reserve_stock call in this step.
EndsReserve(s) == sess[s].pc = "loaded" /\ sess'[s].pc = "idle"

\* C32: while reserve_stock calls interleave, the rows another session can read
\* never show part of a call's allocations: a step inside a call changes no
\* row, the step that ends a failing call changes no row, and the step that
\* ends a successful call gives every batch of its lines the reserved_quantity
\* the call computed and changes no other row.
PartialNeverVisible ==
    [][/\ \A s \in Sessions :
             EndsReserve(s)
             => IF last'.ok
                THEN /\ \A i \in DOMAIN last'.lines :
                           batches'[last'.lines[i].batch_id].reserved_quantity
                               = sess[s].loaded[last'.lines[i].batch_id].reserved_quantity
                                 + last'.lines[i].quantity
                     /\ \A b \in DOMAIN batches :
                           b \notin {last'.lines[i].batch_id : i \in DOMAIN last'.lines}
                           => batches'[b] = batches[b]
                ELSE batches' = batches
       /\ (\A s \in Sessions : ~EndsReserve(s))
          => \A b \in DOMAIN batches : batches'[b] = batches[b]]_vars

\* C32 witness: a reserve_stock call that interleaved with another session's
\* has committed two lines, and both batches hold more reserved units than
\* before its commit.
PartialNeverVisibleWitness ==
    /\ last.op = "reserve"
    /\ last.ok
    /\ Len(last.lines) = 2
    /\ \A i \in DOMAIN last.lines :
          batches[last.lines[i].batch_id].reserved_quantity
              > pre[last.lines[i].batch_id].reserved_quantity
    /\ \E s \in Sessions : sess[s].pc = "loaded"

\* C33: reserve_stock with prefer_fifo = False takes from the same reservable
\* batches in descending expiry order: a batch is allocated from only if every
\* reservable batch of the product that expires later was allocated its whole
\* available quantity; as under FIFO, a failing call leaves every
\* reserved_quantity as it was and the lines of a successful call sum to the
\* requested quantity.
LifoAllocation ==
    (last.op = "reserve" /\ ~last.prefer_fifo)
    => /\ last.ok <=> TotalAvailable(pre, last.product_id) >= last.quantity
       /\ ~last.ok
          => /\ DOMAIN batches = DOMAIN pre
             /\ \A b \in DOMAIN batches :
                   batches[b].reserved_quantity = pre[b].reserved_quantity
       /\ last.ok
          => /\ SumQuantity(last.lines, 1) = last.quantity
             /\ \A i \in DOMAIN last.lines :
                   /\ last.lines[i].batch_id \in Reservable(pre, last.product_id)
                   /\ last.lines[i].quantity > 0
                   /\ last.lines[i].quantity =
                          Min(RemainingBefore(last.quantity, last.lines, i),
                              available_quantity(pre[last.lines[i].batch_id]))
             /\ \A i, j \in DOMAIN last.lines :
                   i < j => pre[last.lines[i].batch_id].expiry_date
                               >= pre[last.lines[j].batch_id].expiry_date
             /\ \A i \in DOMAIN last.lines :
                   \A b \in Reservable(pre, last.product_id) :
                       pre[b].expiry_date > pre[last.lines[i].batch_id].expiry_date
                       => Allocated(last.lines, b, 1) = available_quantity(pre[b])

\* C33 witness: a successful reserve_stock with prefer_fifo = False emptied the
\* later-expiring batch and took the rest, less than all of it, from the
\* earlier-expiring one.
LifoAllocationWitness ==
    /\ last.op = "reserve" /\ last.ok /\ ~last.prefer_fifo
    /\ Len(last.lines) = 2
    /\ pre[last.lines[1].batch_id].expiry_date > pre[last.lines[2].batch_id].expiry_date
    /\ last.lines[2].quantity < available_quantity(pre[last.lines[2].batch_id])

\* The sum of the quantities of a set of stock_movements rows, each counted as
\* often as the table holds it.
RECURSIVE SumMovements(_)
SumMovements(rows) ==
    IF rows = {} THEN 0
    ELSE LET m == CHOOSE x \in rows : TRUE
         IN  m.quantity * CopiesIn(m, movements) + SumMovements(rows \ {m})

\* The quantity the stock movements recorded for batch b add up to.
Ledger(b) == SumMovements({m \in BagToSet(movements) : m.batch_id = b})

\* C37: after any sequence of create-batch, reserve, release, confirm,
\* adjust-stock and mark-expired calls every batch's current_quantity is the
\* sum of the quantities of the stock movements recorded for it; reserve and
\* release record no movement and leave current_quantity alone.
LedgerConsistency ==
    /\ \A b \in DOMAIN batches : batches[b].current_quantity = Ledger(b)
    /\ last.op \in {"reserve", "release"}
       => /\ movements = last.moves
          /\ \A b \in DOMAIN batches :
                batches[b].current_quantity = pre[b].current_quantity

\* C37 witness: a batch was received, part of it sold and the rest marked
\* expired: three movements that add up to its current_quantity of 0.
LedgerConsistencyWitness ==
    \E b \in DOMAIN batches :
        /\ batches[b].current_quantity = 0
        /\ batches[b].is_expired
        /\ \E m \in BagToSet(movements) : m.batch_id = b /\ m.movement_type = "sale"
        /\ \E m \in BagToSet(movements) : m.batch_id = b /\ m.movement_type = "expired"
        /\ BagCardinality(movements) = 3

\* The quantity of a product in a cart.
CartQuantity(cart, product_id) ==
    IF find_item(cart, product_id) = 0 THEN 0
    ELSE cart[find_item(cart, product_id)].quantity

\* The unreserved stock of a product: current_quantity - reserved_quantity
\* summed over its active batches.
UnreservedStock(product_id) ==
    SumAvailable(batches, {b \in DOMAIN batches :
                              /\ batches[b].product_id = product_id
                              /\ batches[b].is_active})

\* C38: after a successful add_to_cart or update_cart_item the cart's quantity
\* of the product is at most the product's unreserved stock.
CartWithinStock ==
    (last.op \in {"add_to_cart", "update_cart_item"} /\ last.ok)
    => CartQuantity(carts[last.session_id].items, last.product_id)
           <= UnreservedStock(last.product_id)

\* C34: when process_sale has finished, by returning a sale or by raising,
\* every batch's reserved_quantity is what it was before the call, whatever
\* other sessions hold on the same batches.
SaleKeepsReservations ==
    last.op = "process_sale"
    => \A b \in DOMAIN batches :
           batches[b].reserved_quantity = pre[b].reserved_quantity

\* C35: when process_sale has raised, every batch's current_quantity is what it
\* was before the call and no SALE movement with the sale's number is recorded.
FailedSaleDeductsNothing ==
    (last.op = "process_sale" /\ ~last.ok)
    => /\ \A b \in DOMAIN batches :
             batches[b].current_quantity = pre[b].current_quantity
       /\ \A m \in BagToSet(movements) :
             ~(m.movement_type = "sale" /\ m.reference_number = last.sale_number
               /\ ~BagIn(m, last.moves))

\* The reservation lines allocated for a product, by their place in the list.
OwnLines(product_id) ==
    {k \in DOMAIN last.lines :
        pre[last.lines[k].batch_id].product_id = product_id}

\* C36: after a successful process_sale every sale item names a batch, and the
\* batch is that of the first reservation line allocated for the item's own
\* product.
SaleItemBatch ==
    (last.op = "process_sale" /\ last.ok)
    => /\ Len(last.items) = Len(last.cart)
       /\ \A i \in DOMAIN last.items :
             /\ last.items[i].product_id = last.cart[i].product_id
             /\ last.items[i].inventory_batch_id # 0
             /\ \E k \in OwnLines(last.items[i].product_id) :
                   /\ \A j \in OwnLines(last.items[i].product_id) : k <= j
                   /\ last.items[i].inventory_batch_id = last.lines[k].batch_id

====
